---- MODULE Spec2Model ----
(***************************************************************************)
(* Three parts of spiketoolkit, each with its own specification:            *)
(*                                                                          *)
(* Spec: the ground-truth comparison study                                  *)
(* (spiketoolkit/comparison/groundtruthstudy.py).  The state is the study   *)
(* folder on disk (its directories and files), the history of the setup     *)
(* call, and the outcome of the last call.  Every function of the module is *)
(* one action.  A call that can be interrupted by a failing write           *)
(* (setup_comparison_study, run_sorters) performs a prefix of its writes    *)
(* and then raises.                                                         *)
(*                                                                          *)
(* SpecCuration: the threshold_* functions                                  *)
(* (spiketoolkit/curation/threshold_metrics.py).  The state is the sorting  *)
(* extractor under curation, with the properties saved on it, and the last  *)
(* call with the calls it made on its collaborators.                        *)
(*                                                                          *)
(* SpecSorter: the mountainsort4 wrapper                                    *)
(* (spiketoolkit/sorters/mountainsort4/mountainsort4.py).  The state is the *)
(* recording extractor handed to the sorter, whether ml_ms4alg can be       *)
(* imported, and the last call with the steps it ran.                       *)
(***************************************************************************)
EXTENDS Integers, Sequences, FiniteSets, TLC

VARIABLES
    dirs,     \* the directories that exist, as paths relative to study_folder
    files,    \* the files that exist: path -> content
    study,    \* history: how setup_comparison_study ended on this folder
    ret,      \* the last call: its name, its arguments, how it ended, its value
    the_sorting,  \* the sorting extractor under curation, with its saved properties
    ncalls,   \* how many threshold_* calls were made on it
    tcall,    \* the last threshold_* call and the calls it made
    the_recording, \* the recording extractor handed to mountainsort4
    HAVE_MS4, \* whether ml_ms4alg can be imported
    mcall     \* the last mountainsort4 call and the steps it ran

studyVars == <<dirs, files, study, ret>>
curationVars == <<the_sorting, ncalls, tcall>>
sorterVars == <<the_recording, HAVE_MS4, mcall>>

vars ==
    <<dirs, files, study, ret, the_sorting, ncalls, tcall, the_recording, HAVE_MS4, mcall>>

----------------------------------------------------------------------------
(* Bounds and input universes *)

\* largest number of recordings in a gt_dict
MaxRecs == 2

NL == "\n"

\* recording names are strings, modelled as sequences of characters
RecNames == { <<"a">>, <<"b">>, <<"a", "b">> }

\* the recordings and ground-truth sortings the studies are made of
RecA == [data |-> "tracesA", sampling_frequency |-> 30000, num_channels |-> 4, probe |-> "probeA"]
RecB == [data |-> "tracesB", sampling_frequency |-> 20000, num_channels |-> 2, probe |-> "probeB"]
RecC == [data |-> "tracesC", sampling_frequency |-> 30000, num_channels |-> 2, probe |-> "probeA"]
GtA == [tag |-> "gtA", unit_ids |-> {1, 2}]
GtB == [tag |-> "gtB", unit_ids |-> {1}]
GtC == [tag |-> "gtC", unit_ids |-> {}]

\* the (recording, sorting_gt) tuple stored under each name
GtTupleOf(rec_name) ==
    CASE rec_name = <<"a">> -> [recording |-> RecA, sorting_gt |-> GtA]
      [] rec_name = <<"b">> -> [recording |-> RecB, sorting_gt |-> GtB]
      [] OTHER              -> [recording |-> RecC, sorting_gt |-> GtC]

\* a gt_dict is a dict: distinct keys, kept in insertion order
GtEntries == { [rec_name |-> n, tuple |-> GtTupleOf(n)] : n \in RecNames }

RECURSIVE SeqsUpTo(_, _)
SeqsUpTo(S, n) ==
    IF n = 0 THEN { <<>> }
    ELSE LET shorter == SeqsUpTo(S, n - 1)
         IN  shorter \cup { Append(s, x) : s \in { t \in shorter : Len(t) = n - 1 }, x \in S }

Keys(gt_dict) == [i \in 1..Len(gt_dict) |-> gt_dict[i].rec_name]

Distinct(s) == \A i, j \in 1..Len(s) : i # j => s[i] # s[j]

GtDicts == { d \in SeqsUpTo(GtEntries, MaxRecs) : Distinct(Keys(d)) }

Range(s) == { s[i] : i \in 1..Len(s) }

----------------------------------------------------------------------------
(* Paths inside study_folder *)

Root == <<>>
RawFilesDir == <<"raw_files">>
GroundTruthDir == <<"ground_truth">>
SorterOutputsDir == <<"sorter_outputs">>
NamesTxt == <<"names.txt">>
ForeignFile == <<"notes.txt">>

raw_filename(rec_name) == <<"raw_files", rec_name, ".raw">>
prb_filename(rec_name) == <<"raw_files", rec_name, ".prb">>
json_filename(rec_name) == <<"raw_files", rec_name, ".json">>
npz_filename(rec_name) == <<"ground_truth", rec_name, ".npz">>

\* os.path.exists(study_folder)
StudyFolderExists == Root \in dirs

----------------------------------------------------------------------------
(* The file system: a write creates or replaces a file, an append extends it *)

MkDir(path) == [kind |-> "mkdir", path |-> path, content |-> <<>>]
WriteFile(path, content) == [kind |-> "write", path |-> path, content |-> content]
AppendFile(path, content) == [kind |-> "append", path |-> path, content |-> content]

SetFile(f, path, content) ==
    [p \in DOMAIN f \cup {path} |-> IF p = path THEN content ELSE f[p]]

ApplyOp(fs, op) ==
    CASE op.kind = "mkdir"  -> [dirs |-> fs.dirs \cup {op.path}, files |-> fs.files]
      [] op.kind = "write"  -> [dirs |-> fs.dirs, files |-> SetFile(fs.files, op.path, op.content)]
      [] op.kind = "append" -> [dirs |-> fs.dirs,
                                files |-> SetFile(fs.files, op.path, fs.files[op.path] \o op.content)]

RECURSIVE ApplyOps(_, _, _)
ApplyOps(fs, ops, k) ==
    IF k = 0 THEN fs
    ELSE ApplyOp(ApplyOps(fs, ops, k - 1), ops[k])

NoFiles == [p \in {} |-> <<>>]

----------------------------------------------------------------------------
(* Outcomes of a call *)

Ok(value) == [status |-> "ok", value |-> value]
Raised(error) == [status |-> "raised", value |-> error]

\* the record of a call; calls: the methods of the comparison objects it invoked
CallWith(op, args, outcome, calls) ==
    [op |-> op, args |-> args, status |-> outcome.status, value |-> outcome.value,
     calls |-> calls]

Call(op, args, outcome) == CallWith(op, args, outcome, {})

----------------------------------------------------------------------------
(* setup_comparison_study(study_folder, gt_dict) *)

\* se.write_binary_dat_format(recording, raw_filename, time_axis=0, dtype='float32', ...)
write_binary_dat_format(recording) ==
    [data |-> recording.data, time_axis |-> 0, dtype |-> "float32"]

\* se.save_probe_file(recording, prb_filename, format='spyking_circus')
save_probe_file(recording) ==
    [probe |-> recording.probe, format |-> "spyking_circus"]

\* variant: the info file written with another dtype than the binary file
json_info_int16(recording) ==
    [sample_rate |-> recording.sampling_frequency, num_chan |-> recording.num_channels,
     dtype |-> "int16", frames_first |-> TRUE]

\* info = dict(sample_rate=sr, num_chan=num_chan, dtype='float32', frames_first=True)
json_info(recording) ==
    [sample_rate |-> recording.sampling_frequency, num_chan |-> recording.num_channels,
     dtype |-> "float32", frames_first |-> TRUE]

\* variant: the sorter_outputs folder made along with the other two
MakeStudyDirs_with_outputs ==
    << MkDir(Root), MkDir(RawFilesDir), MkDir(GroundTruthDir), MkDir(SorterOutputsDir) >>

\* the three os.makedirs calls
MakeStudyDirs == << MkDir(Root), MkDir(RawFilesDir), MkDir(GroundTruthDir) >>

\* one pass of the loop over gt_dict.items(): the four files of one recording
WriteRecording(entry) ==
    LET rec_name == entry.rec_name
        recording == entry.tuple.recording
        sorting_gt == entry.tuple.sorting_gt
    IN  << WriteFile(raw_filename(rec_name), write_binary_dat_format(recording)),
           WriteFile(prb_filename(rec_name), save_probe_file(recording)),
           WriteFile(json_filename(rec_name), json_info(recording)),
           WriteFile(npz_filename(rec_name), sorting_gt) >>

RECURSIVE WriteRecordings(_)
WriteRecordings(gt_dict) ==
    IF gt_dict = <<>> THEN <<>>
    ELSE WriteRecording(Head(gt_dict)) \o WriteRecordings(Tail(gt_dict))

\* the index of recording names: open(names.txt, 'w'), then one line per key
RECURSIVE WriteNameLines(_)
WriteNameLines(gt_dict) ==
    IF gt_dict = <<>> THEN <<>>
    ELSE << AppendFile(NamesTxt, Head(gt_dict).rec_name \o <<NL>>) >>
         \o WriteNameLines(Tail(gt_dict))

WriteNames(gt_dict) == << WriteFile(NamesTxt, <<>>) >> \o WriteNameLines(gt_dict)

\* variant: the index of names written before the recordings
SetupWrites_names_first(gt_dict) ==
    MakeStudyDirs \o WriteNames(gt_dict) \o WriteRecordings(gt_dict)

\* every write of setup_comparison_study, in program order
SetupWrites(gt_dict) ==
    MakeStudyDirs \o WriteRecordings(gt_dict) \o WriteNames(gt_dict)

\* variant: no check that the folder exists
AlreadyExists_unchecked == FALSE

\* assert not os.path.exists(study_folder), 'study_folder already exists'
AlreadyExists == StudyFolderExists

\* variant: the assertion placed after the makedirs calls
AfterFailedAssert_makedirs_first(fs) == ApplyOps(fs, MakeStudyDirs, Len(MakeStudyDirs))

\* what the failed assertion leaves on disk: it is the first statement after
\* the Path conversion, so nothing has been created or written
AfterFailedAssert(fs) == fs

\* the call performs its first k writes; with k short of all of them the
\* (k+1)-th write failed and the exception leaves the function
setup_comparison_study ==
    /\ UNCHANGED <<curationVars, sorterVars>>
    /\ IF AlreadyExists
       THEN LET fs == AfterFailedAssert([dirs |-> dirs, files |-> files])
            IN  /\ dirs' = fs.dirs
                /\ files' = fs.files
                /\ ret' = Call("setup_comparison_study", <<>>,
                               Raised("AssertionError: study_folder already exists"))
                /\ UNCHANGED study
       ELSE \E gt_dict \in GtDicts :
               \E k \in 0..Len(SetupWrites(gt_dict)) :
                   LET writes == SetupWrites(gt_dict)
                       fs == ApplyOps([dirs |-> dirs, files |-> files], writes, k)
                       done == k = Len(writes)
                   IN  /\ dirs' = fs.dirs
                       /\ files' = fs.files
                       /\ study' = [status |-> IF done THEN "created" ELSE "interrupted",
                                    gt_dict |-> gt_dict]
                       /\ ret' = Call("setup_comparison_study", <<>>,
                                      IF done THEN Ok("None") ELSE Raised("OSError"))

----------------------------------------------------------------------------
(* get_rec_names, get_recordings, get_ground_truths *)

\* s[:-1]
DropLast(s) == SubSeq(s, 1, Len(s) - 1)

FirstIndex(s, c) == CHOOSE i \in 1..Len(s) : s[i] = c /\ \A j \in 1..(i - 1) : s[j] # c

\* str.split(sep) with a one-character separator: never an empty list
RECURSIVE Split(_, _)
Split(s, sep) ==
    IF \A i \in 1..Len(s) : s[i] # sep THEN << s >>
    ELSE LET i == FirstIndex(s, sep)
         IN  << SubSeq(s, 1, i - 1) >> \o Split(SubSeq(s, i + 1, Len(s)), sep)

\* f.read()[:-1].split('\n')
ParseNames(text) == Split(DropLast(text), NL)

get_rec_names_of(f) ==
    IF NamesTxt \notin DOMAIN f THEN Raised("FileNotFoundError")
    ELSE Ok(ParseNames(f[NamesTxt]))

\* the files get_recordings opens for one rec_name
RecordingFiles(rec_name) ==
    { raw_filename(rec_name), prb_filename(rec_name), json_filename(rec_name) }

\* se.BinDatRecordingExtractor(raw_filename, info[...]) and se.load_probe_file(rec, prb_filename)
LoadRecording(f, rec_name) ==
    LET info == f[json_filename(rec_name)]
    IN  [raw_filename |-> raw_filename(rec_name),
         data |-> f[raw_filename(rec_name)].data,
         sampling_frequency |-> info.sample_rate,
         num_channels |-> info.num_chan,
         dtype |-> info.dtype,
         frames_first |-> info.frames_first,
         prb_filename |-> prb_filename(rec_name),
         probe |-> f[prb_filename(rec_name)].probe]

\* se.NpzSortingExtractor(study_folder / 'ground_truth' / (rec_name+'.npz'))
LoadGroundTruth(f, rec_name) ==
    [npz_filename |-> npz_filename(rec_name), sorting |-> f[npz_filename(rec_name)]]

get_recordings_of(f) ==
    LET names == get_rec_names_of(f)
    IN  IF names.status = "raised" THEN names
        ELSE IF \E n \in Range(names.value) : ~(RecordingFiles(n) \subseteq DOMAIN f)
        THEN Raised("FileNotFoundError")
        ELSE Ok([n \in Range(names.value) |-> LoadRecording(f, n)])

get_ground_truths_of(f) ==
    LET names == get_rec_names_of(f)
    IN  IF names.status = "raised" THEN names
        ELSE IF \E n \in Range(names.value) : npz_filename(n) \notin DOMAIN f
        THEN Raised("FileNotFoundError")
        ELSE Ok([n \in Range(names.value) |-> LoadGroundTruth(f, n)])

get_rec_names ==
    /\ ret' = Call("get_rec_names", <<>>, get_rec_names_of(files))
    /\ UNCHANGED <<dirs, files, study>>
    /\ UNCHANGED <<curationVars, sorterVars>>

get_recordings ==
    /\ ret' = Call("get_recordings", <<>>, get_recordings_of(files))
    /\ UNCHANGED <<dirs, files, study>>
    /\ UNCHANGED <<curationVars, sorterVars>>

get_ground_truths ==
    /\ ret' = Call("get_ground_truths", <<>>, get_ground_truths_of(files))
    /\ UNCHANGED <<dirs, files, study>>
    /\ UNCHANGED <<curationVars, sorterVars>>

----------------------------------------------------------------------------
(* run_study_sorters(study_folder, sorter_list, mode='keep', ...) *)

\* the sorter_list arguments
SorterLists == { <<"mountainsort4">>, <<"mountainsort4", "klusta">> }

output_folder(rec_name, sorter_name) == <<"sorter_outputs", rec_name, sorter_name>>
run_log(rec_name, sorter_name) == <<"sorter_outputs", rec_name, sorter_name, "run_log.txt">>
sorter_result(rec_name, sorter_name) == <<"sorter_outputs", rec_name, sorter_name, "result">>

Digit(d) == <<"0", "1", "2", "3", "4", "5", "6", "7", "8", "9">>[d + 1]

RECURSIVE FormatNat(_)
FormatNat(n) == IF n < 10 THEN << Digit(n) >> ELSE FormatNat(n \div 10) \o << Digit(n % 10) >>

\* '{}'.format(run_time) of a float, run_time counted in tenths of a second
FormatFloat(tenths) == FormatNat(tenths \div 10) \o << "." >> \o << Digit(tenths % 10) >>

RunTimePrefix == << "r", "u", "n", "_", "t", "i", "m", "e", ":" >>

\* the line run_sorters writes to run_log.txt
RunLogText(tenths) == RunTimePrefix \o << " " >> \o FormatFloat(tenths) \o << NL >>

\* the time a sorter takes, in tenths of a second
MeasuredRunTime(sorter_name) == IF sorter_name = "mountainsort4" THEN 35 ELSE 120

\* what a sorter returns for a recording
SortingOf(recording, sorter_name) ==
    [sorter |-> sorter_name, data |-> recording.data,
     unit_ids |-> IF sorter_name = "mountainsort4" THEN {1, 2, 3} ELSE {1}]

\* the jobs of one run_sorters call, recordings outside, sorters inside;
\* mode 'keep' skips a job whose output folder exists
RECURSIVE JobsOf(_, _)
JobsOf(rec_names, sorter_list) ==
    IF rec_names = <<>> THEN <<>>
    ELSE [i \in 1..Len(sorter_list) |-> <<Head(rec_names), sorter_list[i]>>]
         \o JobsOf(Tail(rec_names), sorter_list)

KeptOut(d, jobs) == SelectSeq(jobs, LAMBDA job : output_folder(job[1], job[2]) \notin d)

JobFolder(job) ==
    << MkDir(<<"sorter_outputs", job[1]>>), MkDir(output_folder(job[1], job[2])) >>

JobResult(job, recording_dict) ==
    << WriteFile(sorter_result(job[1], job[2]), SortingOf(recording_dict[job[1]], job[2])),
       WriteFile(run_log(job[1], job[2]), RunLogText(MeasuredRunTime(job[2]))) >>

RECURSIVE JobWrites(_, _)
JobWrites(jobs, recording_dict) ==
    IF jobs = <<>> THEN <<>>
    ELSE JobFolder(Head(jobs)) \o JobResult(Head(jobs), recording_dict)
         \o JobWrites(Tail(jobs), recording_dict)

\* run_sorters(sorter_list, recording_dict, working_folder, mode='keep', engine='loop'):
\* everything it creates lies under working_folder
run_sorters_writes(d, sorter_list, rec_names, recording_dict) ==
    << MkDir(SorterOutputsDir) >>
    \o JobWrites(KeptOut(d, JobsOf(rec_names, sorter_list)), recording_dict)

\* a call that is interrupted is interrupted inside one job, after the sorter
\* has put its result in the output folder and before run_log.txt is written
\* (3 writes into the job); a job that returns has written both
StopPoints(writes) ==
    { k \in 0..Len(writes) : k = Len(writes) \/ (k >= 1 /\ (k - 1) % 4 = 3) }

run_study_sorters ==
    /\ UNCHANGED <<curationVars, sorterVars>>
    /\ \E names \in { get_rec_names_of(files) }, recording_dict \in { get_recordings_of(files) } :
           IF recording_dict.status = "raised"
           THEN /\ ret' = Call("run_study_sorters", <<>>, recording_dict)
                /\ UNCHANGED <<dirs, files, study>>
           ELSE \E sorter_list \in SorterLists :
                   LET writes == run_sorters_writes(dirs, sorter_list, names.value,
                                                    recording_dict.value)
                   IN  \E k \in StopPoints(writes) :
                           LET fs == ApplyOps([dirs |-> dirs, files |-> files], writes, k)
                           IN  /\ dirs' = fs.dirs
                               /\ files' = fs.files
                               /\ ret' = Call("run_study_sorters", <<>>,
                                              IF k = Len(writes) THEN Ok("None")
                                              ELSE Raised("OSError"))
                               /\ UNCHANGED study

----------------------------------------------------------------------------
(* collect_run_times(study_folder) *)

\* os.listdir: the entries of a directory as a list, in the order the system gives
RECURSIVE ListDir(_)
ListDir(entries) ==
    IF entries = {} THEN <<>>
    ELSE LET first == CHOOSE e \in entries : TRUE
         IN  << first >> \o ListDir(entries \ {first})

\* loop_over_folders(sorter_outputs): (rec_name, sorter_name) of every
\* <rec_name>/<sorter_name> folder, each once
loop_over_folders(d) ==
    ListDir({ <<p[2], p[3]>> : p \in { q \in d : Len(q) = 3 /\ q[1] = "sorter_outputs" } })

\* str.replace(old, ''): every occurrence of old removed
RECURSIVE RemoveAll(_, _)
RemoveAll(s, old) ==
    IF Len(s) < Len(old) THEN s
    ELSE IF SubSeq(s, 1, Len(old)) = old
         THEN RemoveAll(SubSeq(s, Len(old) + 1, Len(s)), old)
         ELSE << Head(s) >> \o RemoveAll(Tail(s), old)

\* file.readline(): up to and with the first line break
ReadLine(text) ==
    IF \A i \in 1..Len(text) : text[i] # NL THEN text
    ELSE SubSeq(text, 1, FirstIndex(text, NL))

IsSpace(c) == c \in { " ", NL }

RECURSIVE Strip(_)
Strip(s) ==
    IF s = <<>> THEN s
    ELSE IF IsSpace(Head(s)) THEN Strip(Tail(s))
    ELSE IF IsSpace(s[Len(s)]) THEN Strip(DropLast(s))
    ELSE s

DigitValue(c) == CHOOSE d \in 0..9 : Digit(d) = c

IsDigits(s) == s # <<>> /\ \A i \in 1..Len(s) : \E d \in 0..9 : Digit(d) = s[i]

RECURSIVE ParseNat(_)
ParseNat(s) == IF s = <<>> THEN 0 ELSE 10 * ParseNat(DropLast(s)) + DigitValue(s[Len(s)])

\* float(text) for the decimal notation n.d, the value in tenths; not a number: ValueError
ParseFloat(text) ==
    LET parts == Split(Strip(text), ".")
    IN  IF Len(parts) = 2 /\ IsDigits(parts[1]) /\ IsDigits(parts[2]) /\ Len(parts[2]) = 1
        THEN Ok(10 * ParseNat(parts[1]) + ParseNat(parts[2]))
        ELSE Raised("ValueError")

\* float(logfile.readline().replace('run_time:', ''))
ParseRunTime(text) == ParseFloat(RemoveAll(ReadLine(text), RunTimePrefix))

\* variant: no check that run_log.txt exists
HasRunLog_unchecked(f, rec_name, sorter_name) == TRUE

\* if os.path.exists(output_folder / 'run_log.txt')
HasRunLog(f, rec_name, sorter_name) == run_log(rec_name, sorter_name) \in DOMAIN f

\* open(path, mode='r') and read
OpenRead(f, path) == IF path \in DOMAIN f THEN Ok(f[path]) ELSE Raised("FileNotFoundError")

\* lines 133-136 for one folder: <<>> when it is skipped, else the triple or the exception
RunTimeOf(f, job) ==
    IF HasRunLog(f, job[1], job[2])
    THEN LET logfile == OpenRead(f, run_log(job[1], job[2]))
         IN  IF logfile.status = "raised" THEN << logfile >>
             ELSE LET run_time == ParseRunTime(logfile.value)
                  IN  IF run_time.status = "raised" THEN << run_time >>
                      ELSE << Ok(<<job[1], job[2], run_time.value>>) >>
    ELSE <<>>

RECURSIVE Concat(_)
Concat(ss) == IF ss = <<>> THEN <<>> ELSE Head(ss) \o Concat(Tail(ss))

\* the list run_times, or the first exception
collect_run_times_of(d, f) ==
    IF SorterOutputsDir \notin d THEN Raised("FileNotFoundError")
    ELSE LET folders == loop_over_folders(d)
             found == Concat([i \in 1..Len(folders) |-> RunTimeOf(f, folders[i])])
         IN  IF \E i \in 1..Len(found) : found[i].status = "raised"
             THEN found[CHOOSE i \in 1..Len(found) :
                            /\ found[i].status = "raised"
                            /\ \A j \in 1..(i - 1) : found[j].status = "ok"]
             ELSE Ok([i \in 1..Len(found) |-> found[i].value])

collect_run_times ==
    /\ ret' = Call("collect_run_times", <<>>, collect_run_times_of(dirs, files))
    /\ UNCHANGED <<dirs, files, study>>
    /\ UNCHANGED <<curationVars, sorterVars>>

----------------------------------------------------------------------------
(* aggregate_sorting_comparison(study_folder, exhaustive_gt=False, **karg_thresh) *)

\* how a caller passes exhaustive_gt: <<>> leaves it out, <<b>> passes b
ExhaustiveGtArgs == { <<>>, <<TRUE>>, <<FALSE>> }

\* the **karg_thresh a caller passes
NoKwargs == {}
KargThreshs == { NoKwargs, { <<"accuracy", "0.95">> } }

\* def aggregate_sorting_comparison(study_folder, exhaustive_gt=False, **karg_thresh)
aggregate_sorting_comparison_default == FALSE

\* def aggregate_performances_table(study_folder,  exhaustive_gt=False, **karg_thresh)
aggregate_performances_table_default == FALSE

BindDefault(passed, default) == IF passed = <<>> THEN default ELSE passed[1]

\* collect_sorting_outputs(sorter_outputs): the sorting of every output folder
\* that holds one, keyed by (rec_name, sorter_name)
collect_sorting_outputs(d, f) ==
    IF SorterOutputsDir \notin d THEN Raised("FileNotFoundError")
    ELSE LET held == { job \in Range(loop_over_folders(d)) :
                         sorter_result(job[1], job[2]) \in DOMAIN f }
         IN  Ok([job \in held |-> f[sorter_result(job[1], job[2])]])

\* compare_sorter_to_ground_truth(gt_sorting, sorting)
compare_sorter_to_ground_truth(gt_sorting, sorting) ==
    [gt_sorting |-> gt_sorting, tested_sorting |-> sorting]

\* variant: the ground truth of one fixed recording for every job
GroundTruthFor_fixed(ground_truths, rec_name, sorter_name) ==
    ground_truths[CHOOSE n \in DOMAIN ground_truths : TRUE]

\* gt_sorting = ground_truths[rec_name]
GroundTruthFor(ground_truths, rec_name, sorter_name) == ground_truths[rec_name]

\* the loop of lines 176-180
Comparisons(ground_truths, results) ==
    [job \in DOMAIN results |->
        compare_sorter_to_ground_truth(GroundTruthFor(ground_truths, job[1], job[2]),
                                       results[job])]

\* lines 170-180 of aggregate_sorting_comparison; exhaustive_gt and karg_thresh
\* are bound by the call and read nowhere in the body
aggregate_sorting_comparison_of(d, f) ==
    LET ground_truths == get_ground_truths_of(f)
        results == collect_sorting_outputs(d, f)
    IN  IF ground_truths.status = "raised" THEN ground_truths
        ELSE IF results.status = "raised" THEN results
        ELSE IF \E job \in DOMAIN results.value : job[1] \notin DOMAIN ground_truths.value
        THEN Raised("KeyError")
        ELSE Ok(Comparisons(ground_truths.value, results.value))

\* return comparisons
ReturnOfAggregate(comparisons) == [comparisons |-> comparisons]

aggregate_sorting_comparison ==
    /\ UNCHANGED <<curationVars, sorterVars>>
    /\ \E out \in { aggregate_sorting_comparison_of(dirs, files) } :
           \E passed \in ExhaustiveGtArgs, karg_thresh \in KargThreshs :
               /\ ret' = Call("aggregate_sorting_comparison",
                              [passed |-> passed,
                               exhaustive_gt |->
                                   BindDefault(passed, aggregate_sorting_comparison_default),
                               karg_thresh |-> karg_thresh],
                              IF out.status = "raised" THEN out
                              ELSE Ok(ReturnOfAggregate(out.value)))
               /\ UNCHANGED <<dirs, files, study>>

----------------------------------------------------------------------------
(* aggregate_performances_table(study_folder, exhaustive_gt=False, **karg_thresh) *)

\* a table cell: None, or a value
None == <<>>
Some(v) == << v >>

\* the methods of a comparison object, as the calls made on it
MethodCall(method, job, kwargs) == << method, job[1], job[2], kwargs >>

\* what identifies a comparison: the ground truth and the sorting it was made of
CompOf(comp) ==
    << comp.gt_sorting.sorting.tag, comp.tested_sorting.sorter, comp.tested_sorting.data >>

get_performance(comp, method) ==
    [of |-> CompOf(comp), method |-> method, output |-> "pandas"]
count_well_detected_units(comp, karg_thresh) ==
    [of |-> CompOf(comp), count |-> "well_detected", thresholds |-> karg_thresh]
count_redundant_units(comp) == [of |-> CompOf(comp), count |-> "redundant"]
count_false_positive_units(comp) == [of |-> CompOf(comp), count |-> "false_positive"]
count_bad_units(comp) == [of |-> CompOf(comp), count |-> "bad"]

\* pd.DataFrame: the column labels, and one row for every key of the index
DataFrame(columns, rows) == [columns |-> columns, rows |-> rows]

\* the columns of the two performance tables (_perf_keys)
perf_keys == << "accuracy", "recall", "precision" >>

\* run_times = pd.DataFrame(rt, columns=[...]).set_index(['rec_name', 'sorter_name'])
RunTimesTable(rt) ==
    DataFrame(<< "run_time" >>,
              [job \in { <<t[1], t[2]>> : t \in Range(rt) } |->
                  [run_time |-> (CHOOSE t \in Range(rt) : t[1] = job[1] /\ t[2] = job[2])[3]]])

\* df.loc[key, ...] = value: the row of key is set (a key outside the index adds its row)
SetRows(index, rows, blank) ==
    [job \in index \cup DOMAIN rows |-> IF job \in DOMAIN rows THEN rows[job] ELSE blank]

\* variant: the two exhaustive columns made whatever exhaustive_gt is
CountColumns_always_exhaustive(exhaustive_gt) ==
    << "num_gt", "num_sorter", "num_well_detected", "num_redundant",
       "num_false_positive", "num_bad" >>

\* lines 212-216: the columns count_units is made with
CountColumns(exhaustive_gt) ==
    << "num_gt", "num_sorter", "num_well_detected", "num_redundant" >>
    \o IF exhaustive_gt THEN << "num_false_positive", "num_bad" >> ELSE <<>>

\* lines 229-235: the cells set in the row of one comparison
CountCells(comp, gt_sorting, sorting, exhaustive_gt, karg_thresh) ==
    LET base == [num_gt |-> Some(Cardinality(gt_sorting.sorting.unit_ids)),
                 num_sorter |-> Some(Cardinality(sorting.unit_ids)),
                 num_well_detected |-> Some(count_well_detected_units(comp, karg_thresh)),
                 num_redundant |-> Some(count_redundant_units(comp))]
    IN  IF exhaustive_gt
        THEN [num_gt |-> base.num_gt, num_sorter |-> base.num_sorter,
              num_well_detected |-> base.num_well_detected,
              num_redundant |-> base.num_redundant,
              num_false_positive |-> Some(count_false_positive_units(comp)),
              num_bad |-> Some(count_bad_units(comp))]
        ELSE base

\* a row of count_units as the DataFrame was made: every column empty
BlankCountRow(exhaustive_gt) == [c \in Range(CountColumns(exhaustive_gt)) |-> None]

\* the row of one comparison: the cells set, the other columns left empty
CountRow(comp, gt_sorting, sorting, exhaustive_gt, karg_thresh) ==
    LET cells == CountCells(comp, gt_sorting, sorting, exhaustive_gt, karg_thresh)
        blank == BlankCountRow(exhaustive_gt)
    IN  [c \in DOMAIN blank \cup DOMAIN cells |->
            IF c \in DOMAIN cells THEN cells[c] ELSE blank[c]]

\* the four tables of out_dataframes
OutDataframes(rt, comparisons, ground_truths, results, exhaustive_gt, karg_thresh) ==
    LET run_times == RunTimesTable(rt)
        index == DOMAIN run_times.rows
    IN  [run_times |-> run_times,
         perf_pooled_with_sum |->
            DataFrame(perf_keys,
                SetRows(index, [job \in DOMAIN comparisons |->
                                   Some(get_performance(comparisons[job], "pooled_with_sum"))],
                        None)),
         perf_pooled_with_average |->
            DataFrame(perf_keys,
                SetRows(index, [job \in DOMAIN comparisons |->
                                   Some(get_performance(comparisons[job], "pooled_with_average"))],
                        None)),
         count_units |->
            DataFrame(CountColumns(exhaustive_gt),
                SetRows(index, [job \in DOMAIN comparisons |->
                                   CountRow(comparisons[job], ground_truths[job[1]],
                                            results[job], exhaustive_gt, karg_thresh)],
                        BlankCountRow(exhaustive_gt)))]

\* the methods the loop of lines 219-235 calls on the comparison of one job
TableCalls(job, exhaustive_gt, karg_thresh) ==
    { MethodCall("get_performance", job, { <<"method", "pooled_with_sum">> }),
      MethodCall("get_performance", job, { <<"method", "pooled_with_average">> }),
      MethodCall("count_well_detected_units", job, karg_thresh),
      MethodCall("count_redundant_units", job, NoKwargs) }
    \cup IF exhaustive_gt
         THEN { MethodCall("count_false_positive_units", job, NoKwargs),
                MethodCall("count_bad_units", job, NoKwargs) }
         ELSE {}

\* lines 191-201: what the tables are made of, or the exception that ends the call
TableInputs(d, f) ==
    LET comparisons == aggregate_sorting_comparison_of(d, f)
        ground_truths == get_ground_truths_of(f)
        results == collect_sorting_outputs(d, f)
        rt == collect_run_times_of(d, f)
    IN  IF comparisons.status = "raised" THEN comparisons
        ELSE IF rt.status = "raised" THEN rt
        ELSE Ok([comparisons |-> comparisons.value, ground_truths |-> ground_truths.value,
                 results |-> results.value, rt |-> rt.value])

aggregate_performances_table ==
    /\ UNCHANGED <<curationVars, sorterVars>>
    /\ \E inputs \in { TableInputs(dirs, files) } :
           \E passed \in ExhaustiveGtArgs, karg_thresh \in KargThreshs :
               LET exhaustive_gt == BindDefault(passed, aggregate_performances_table_default)
                   in == inputs.value
               IN  /\ ret' = CallWith("aggregate_performances_table",
                                      [passed |-> passed, exhaustive_gt |-> exhaustive_gt,
                                       karg_thresh |-> karg_thresh],
                                      IF inputs.status = "raised" THEN inputs
                                      ELSE Ok(OutDataframes(in.rt, in.comparisons,
                                                            in.ground_truths, in.results,
                                                            exhaustive_gt, karg_thresh)),
                                      IF inputs.status = "raised" THEN {}
                                      ELSE UNION { TableCalls(job, exhaustive_gt, karg_thresh) :
                                                   job \in DOMAIN in.comparisons })
                   /\ UNCHANGED <<dirs, files, study>>

----------------------------------------------------------------------------
(* spiketoolkit/curation/threshold_metrics.py: inputs and collaborators *)

\* largest number of threshold_* calls made on the sorting
MaxCalls == 1

\* the sorting extractors a caller curates: one has a sampling frequency, one has none
SortingX ==
    [name |-> "sortingX", unit_ids |-> <<1, 2, 3>>, sampling_frequency |-> Some(30000),
     properties |-> {}]
SortingY ==
    [name |-> "sortingY", unit_ids |-> <<1, 2>>, sampling_frequency |-> None,
     properties |-> {}]
Sortings == { SortingX, SortingY }

\* sorting.get_unit_ids(), sorting.get_sampling_frequency()
get_unit_ids(s) == s.unit_ids
get_sampling_frequency(s) == s.sampling_frequency

\* the recording the six recording-based functions are given
CuratedRecording == "recording"

\* the arguments a caller passes
Thresholds == { 2, 3 }
ThresholdSigns == { "less", "less_or_equal", "greater", "greater_or_equal" }
Epochs == { 0, 1 }
SamplingFrequencies == { None, Some(25000) }

\* the parameter dicts of spiketoolkit.validation, as made by their get_* functions
get_metric_scope_params == [unit_ids |-> None, epoch_tuples |-> None, epoch_names |-> None]
get_recording_params == [apply_filter |-> TRUE, freq_min |-> 300, freq_max |-> 6000]
get_amplitude_params ==
    [amp_method |-> "absolute", amp_peak |-> "both", amp_frames_before |-> 3,
     amp_frames_after |-> 3]
get_pca_scores_params ==
    [n_comp |-> 3, ms_before |-> "1.0", ms_after |-> "2.0", dtype |-> None,
     max_spikes_per_unit |-> 300, max_spikes_for_pca |-> 100000]

\* the metric_scope_params a caller passes: the default, or a dict with a subset
\* of the keys
ScopeParams ==
    { get_metric_scope_params,
      [unit_ids |-> Some(<<2, 1>>)],
      [epoch_tuples |-> Some(<< <<0, 10>>, <<10, 20>> >>),
       epoch_names |-> Some(<< "early", "late" >>)] }

\* update_param_dicts(name=given): the defaults of that dict, overridden by the
\* entries given, in a new dict
update_param_dicts(given, defaults) ==
    [k \in DOMAIN defaults |-> IF k \in DOMAIN given THEN given[k] ELSE defaults[k]]

\* the number of epochs the metrics are computed for
NumEpochs(ms_dict) == IF ms_dict.epoch_tuples = None THEN 1 ELSE Len(ms_dict.epoch_tuples[1])

\* the calls of threshold_num_spikes, threshold_firing_rates,
\* threshold_presence_ratios and threshold_isi_violations, epoch within the epochs
SortingCalls ==
    { a \in { [threshold |-> t, threshold_sign |-> g, epoch |-> e, sampling_frequency |-> f,
               metric_scope_params |-> m, save_as_property |-> b] :
                 t \in Thresholds, g \in ThresholdSigns, e \in Epochs,
                 f \in SamplingFrequencies, m \in ScopeParams, b \in BOOLEAN } :
        a.epoch < NumEpochs(update_param_dicts(a.metric_scope_params,
                                               get_metric_scope_params)) }

\* the calls of the six functions that take a recording
RecordingCalls ==
    { a \in { [threshold |-> t, threshold_sign |-> g, epoch |-> e,
               metric_scope_params |-> m, save_as_property |-> b] :
                 t \in Thresholds, g \in ThresholdSigns, e \in Epochs,
                 m \in ScopeParams, b \in BOOLEAN } :
        a.epoch < NumEpochs(update_param_dicts(a.metric_scope_params,
                                               get_metric_scope_params)) }

\* the value a metric has for a unit in an epoch
MetricValue(metric, unit, epoch) == unit + epoch

\* variant: 'less' and 'greater' taken to include the threshold
Compare_inclusive(threshold_sign, value, threshold) ==
    CASE threshold_sign \in { "less", "less_or_equal" } -> value <= threshold
      [] threshold_sign \in { "greater", "greater_or_equal" } -> value >= threshold

\* the comparison threshold_sign stands for
Compare(threshold_sign, value, threshold) ==
    CASE threshold_sign = "less"             -> value < threshold
      [] threshold_sign = "less_or_equal"    -> value <= threshold
      [] threshold_sign = "greater"          -> value > threshold
      [] threshold_sign = "greater_or_equal" -> value >= threshold

\* <Metric>(metric_data=md).threshold_metric(threshold, threshold_sign, epoch, ...,
\* save_as_property): the sorting with the units whose metric value in that
\* epoch compares to the threshold as threshold_sign says
threshold_metric(metric, md, args) ==
    LET threshold == args[1]
        threshold_sign == args[2]
        epoch == args[3]
    IN  [metric |-> metric, sorting |-> md.sorting, unit_ids |-> md.unit_ids,
         epoch |-> epoch,
         thresholded |-> { u \in Range(md.unit_ids) :
                             Compare(threshold_sign, MetricValue(metric, u, epoch),
                                     threshold) }]

\* the property a metric saves on the sorting when save_as_property (the last
\* argument of threshold_metric) is true
SavedProperties(metric, args) == IF args[Len(args)] THEN { metric } ELSE {}

----------------------------------------------------------------------------
(* spiketoolkit/curation/threshold_metrics.py: the threshold_* functions *)

CurationCall(op, args, outcome, steps) ==
    [op |-> op, args |-> args, status |-> outcome.status, value |-> outcome.value,
     steps |-> steps]

\* the message of lines 59-61
NoSamplingFrequency ==
    "ValueError: Please pass in a sampling frequency (your SortingExtractor does not have one specified)"

\* variant: no check that a sampling frequency is known
ResolveSamplingFrequency_unchecked(sampling_frequency, s) ==
    Ok(IF sampling_frequency = None THEN get_sampling_frequency(s) ELSE sampling_frequency)

\* lines 58-63 (125-130, 193-198, 266-271): the sampling frequency of the call
ResolveSamplingFrequency(sampling_frequency, s) ==
    IF sampling_frequency = None /\ get_sampling_frequency(s) = None
    THEN Raised(NoSamplingFrequency)
    ELSE IF sampling_frequency = None THEN Ok(get_sampling_frequency(s))
    ELSE Ok(sampling_frequency)

\* variant: the unit ids of the sorting used whatever the caller specified
ScopeDict_all_units(metric_scope_params, s) ==
    [update_param_dicts(metric_scope_params, get_metric_scope_params)
        EXCEPT !.unit_ids = Some(get_unit_ids(s))]

\* lines 65-68: ms_dict, with unit_ids None replaced by the unit ids of the sorting
ScopeDict(metric_scope_params, s) ==
    LET ms_dict == update_param_dicts(metric_scope_params, get_metric_scope_params)
    IN  IF ms_dict.unit_ids = None
        THEN [ms_dict EXCEPT !.unit_ids = Some(get_unit_ids(s))]
        ELSE ms_dict

\* lines 70-75: MetricData(sorting=..., unit_ids=..., epoch_tuples=..., epoch_names=...)
MetricDataOfSorting(s, ms_dict) ==
    [call |-> "MetricData", sorting |-> s.name, recording |-> None,
     unit_ids |-> ms_dict.unit_ids[1], epoch_tuples |-> ms_dict.epoch_tuples,
     epoch_names |-> ms_dict.epoch_names]

\* lines 364-373: MetricData(sorting=..., recording=..., apply_filter=..., ...)
MetricDataOfRecording(s, rec, rp_dict, ms_dict) ==
    [call |-> "MetricData", sorting |-> s.name, recording |-> Some(rec),
     apply_filter |-> rp_dict.apply_filter, freq_min |-> rp_dict.freq_min,
     freq_max |-> rp_dict.freq_max,
     unit_ids |-> ms_dict.unit_ids[1], epoch_tuples |-> ms_dict.epoch_tuples,
     epoch_names |-> ms_dict.epoch_names]

\* lines 374-381: md.compute_amplitudes(...)
compute_amplitudes(ap_dict, save_features_props, seed) ==
    [call |-> "compute_amplitudes", amp_method |-> ap_dict.amp_method,
     amp_peak |-> ap_dict.amp_peak, amp_frames_before |-> ap_dict.amp_frames_before,
     amp_frames_after |-> ap_dict.amp_frames_after,
     save_features_props |-> save_features_props, seed |-> seed]

\* lines 619-628: md.compute_pca_scores(...)
compute_pca_scores(ps_dict, save_features_props, seed) ==
    [call |-> "compute_pca_scores", n_comp |-> ps_dict.n_comp,
     ms_before |-> ps_dict.ms_before, ms_after |-> ps_dict.ms_after,
     dtype |-> ps_dict.dtype, max_spikes_per_unit |-> ps_dict.max_spikes_per_unit,
     max_spikes_for_pca |-> ps_dict.max_spikes_for_pca,
     save_features_props |-> save_features_props, seed |-> seed]

\* the call raises: nothing was built, computed or saved
Refused(op, a, error) ==
    /\ tcall' = CurationCall(op, a, error, <<>>)
    /\ ncalls' = ncalls + 1
    /\ UNCHANGED the_sorting

\* the metric data md is built, its features are computed, then
\* threshold_sorting = <Metric>(metric_data=md).threshold_metric(*args) is returned
Thresholded(op, a, md, features, metric, args) ==
    \E threshold_sorting \in { threshold_metric(metric, md, args) } :
        /\ tcall' = CurationCall(op, a, Ok(threshold_sorting),
                                 << md >> \o features
                                 \o << [call |-> "threshold_metric", metric |-> metric,
                                        args |-> args, returned |-> threshold_sorting] >>)
        /\ the_sorting' = [the_sorting EXCEPT !.properties = @ \cup SavedProperties(metric, args)]
        /\ ncalls' = ncalls + 1

\* lines 58-79 and their like: a function that takes the sorting alone
OfSorting(op, a, metric, args) ==
    LET sampling_frequency == ResolveSamplingFrequency(a.sampling_frequency, the_sorting)
    IN  IF sampling_frequency.status = "raised"
        THEN Refused(op, a, sampling_frequency)
        ELSE Thresholded(op, a,
                         MetricDataOfSorting(the_sorting, ScopeDict(a.metric_scope_params, the_sorting)),
                         <<>>, metric, args)

\* the metric data of a function that takes sorting and recording
RecordingMetricData(a) ==
    MetricDataOfRecording(the_sorting, CuratedRecording,
                          update_param_dicts(get_recording_params, get_recording_params),
                          ScopeDict(a.metric_scope_params, the_sorting))

\* the pca scores computed with the default pca_scores_params
DefaultPcaScores ==
    compute_pca_scores(update_param_dicts(get_pca_scores_params, get_pca_scores_params),
                       FALSE, None)

threshold_num_spikes ==
    /\ ncalls < MaxCalls
    /\ UNCHANGED <<studyVars, sorterVars>>
    /\ \E a \in SortingCalls :
          OfSorting("threshold_num_spikes", a, "NumSpikes",
                    << a.threshold, a.threshold_sign, a.epoch, a.save_as_property >>)

threshold_firing_rates ==
    /\ ncalls < MaxCalls
    /\ UNCHANGED <<studyVars, sorterVars>>
    /\ \E a \in SortingCalls :
          OfSorting("threshold_firing_rates", a, "FiringRate",
                    << a.threshold, a.threshold_sign, a.epoch, a.save_as_property >>)

threshold_presence_ratios ==
    /\ ncalls < MaxCalls
    /\ UNCHANGED <<studyVars, sorterVars>>
    /\ \E a \in SortingCalls :
          OfSorting("threshold_presence_ratios", a, "PresenceRatio",
                    << a.threshold, a.threshold_sign, a.epoch, a.save_as_property >>)

\* isi_threshold=0.0015, min_isi=0.000166
threshold_isi_violations ==
    /\ ncalls < MaxCalls
    /\ UNCHANGED <<studyVars, sorterVars>>
    /\ \E a \in SortingCalls :
          OfSorting("threshold_isi_violations", a, "ISIViolation",
                    << a.threshold, a.threshold_sign, a.epoch, "0.0015", "0.000166",
                       a.save_as_property >>)

\* save_features_props=False, seed=None
threshold_amplitude_cutoffs ==
    /\ ncalls < MaxCalls
    /\ UNCHANGED <<studyVars, sorterVars>>
    /\ \E a \in RecordingCalls :
          Thresholded("threshold_amplitude_cutoffs", a, RecordingMetricData(a),
                      << compute_amplitudes(update_param_dicts(get_amplitude_params,
                                                               get_amplitude_params),
                                            FALSE, None) >>,
                      "AmplitudeCutoff",
                      << a.threshold, a.threshold_sign, a.epoch, a.save_as_property >>)

\* snr_mode="mad", snr_noise_duration=10.0, max_spikes_per_unit_for_snr=1000,
\* template_mode="median", max_channel_peak="both", recompute_info=True,
\* save_features_props=True, seed=None
threshold_snrs ==
    /\ ncalls < MaxCalls
    /\ UNCHANGED <<studyVars, sorterVars>>
    /\ \E a \in RecordingCalls :
          Thresholded("threshold_snrs", a, RecordingMetricData(a), <<>>, "SNR",
                      << a.threshold, a.threshold_sign, a.epoch, "mad", "10.0", 1000,
                         "median", "both", TRUE, TRUE, None, a.save_as_property >>)

\* max_spikes_for_silhouette=10000, seed=None
threshold_silhouette_scores ==
    /\ ncalls < MaxCalls
    /\ UNCHANGED <<studyVars, sorterVars>>
    /\ \E a \in RecordingCalls :
          Thresholded("threshold_silhouette_scores", a, RecordingMetricData(a),
                      << DefaultPcaScores >>, "SilhouetteScore",
                      << a.threshold, a.threshold_sign, a.epoch, 10000, None,
                         a.save_as_property >>)

\* num_channels_to_compare=13, max_spikes_per_cluster=500, seed=None
threshold_d_primes ==
    /\ ncalls < MaxCalls
    /\ UNCHANGED <<studyVars, sorterVars>>
    /\ \E a \in RecordingCalls :
          Thresholded("threshold_d_primes", a, RecordingMetricData(a),
                      << DefaultPcaScores >>, "DPrime",
                      << a.threshold, a.threshold_sign, a.epoch, 13, 500, None,
                         a.save_as_property >>)

threshold_l_ratios ==
    /\ ncalls < MaxCalls
    /\ UNCHANGED <<studyVars, sorterVars>>
    /\ \E a \in RecordingCalls :
          Thresholded("threshold_l_ratios", a, RecordingMetricData(a),
                      << DefaultPcaScores >>, "LRatio",
                      << a.threshold, a.threshold_sign, a.epoch, 13, 500, None,
                         a.save_as_property >>)

threshold_isolation_distances ==
    /\ ncalls < MaxCalls
    /\ UNCHANGED <<studyVars, sorterVars>>
    /\ \E a \in RecordingCalls :
          Thresholded("threshold_isolation_distances", a, RecordingMetricData(a),
                      << DefaultPcaScores >>, "IsolationDistance",
                      << a.threshold, a.threshold_sign, a.epoch, 13, 500, None,
                         a.save_as_property >>)

----------------------------------------------------------------------------
(* spiketoolkit/sorters/mountainsort4/mountainsort4.py *)

\* the recording extractors a caller hands over: channels 0, 1, 2 in the groups
\* 0, 0, 1; with or without the channel properties 'location' and 'group'
RecordingLG ==
    [name |-> "recLG", channel_ids |-> <<0, 1, 2>>, properties |-> { "location", "group" },
     pre |-> <<>>]
RecordingG ==
    [name |-> "recG", channel_ids |-> <<0, 1, 2>>, properties |-> { "group" }, pre |-> <<>>]
RecordingN ==
    [name |-> "recN", channel_ids |-> <<0, 1, 2>>, properties |-> {}, pre |-> <<>>]
Recordings == { RecordingLG, RecordingG, RecordingN }

\* recording.getChannelPropertyNames()
getChannelPropertyNames(r) == r.properties

\* the value of the property 'group' of a channel
ChannelGroup(chan) == IF chan < 2 THEN 0 ELSE 1

\* the sorter parameters a caller passes: the defaults of lines 75-83, with
\* freq_min, whiten and noise_overlap_threshold also set to None, False, None
SorterParams ==
    { [detect_sign |-> -1, adjacency_radius |-> -1, freq_min |-> f, freq_max |-> 6000,
       whiten |-> w, clip_size |-> 50, detect_threshold |-> 3, detect_interval |-> 10,
       noise_overlap_threshold |-> n] :
         f \in { None, Some(300) }, w \in BOOLEAN, n \in { None, Some("0.15") } }

\* by_property: None, a channel property, or a name that is no channel property
ByProperties == { None, Some("group"), Some("shank") }

\* a call's positional arguments after recording, in the order of lines 87-88
PositionalArgs(p) ==
    << p.detect_sign, p.adjacency_radius, p.freq_min, p.freq_max, p.whiten, p.clip_size,
       p.detect_threshold, p.detect_interval, p.noise_overlap_threshold >>

\* the parameters of _mountainsort4 bound to positional arguments (lines 106-117)
BindPositional(args) ==
    [detect_sign |-> args[1], adjacency_radius |-> args[2], freq_min |-> args[3],
     freq_max |-> args[4], whiten |-> args[5], clip_size |-> args[6],
     detect_threshold |-> args[7], detect_interval |-> args[8],
     noise_overlap_threshold |-> args[9]]

\* st.preprocessing.bandpass_filter and st.preprocessing.whiten: a new recording
\* on top of the one given, with its channel properties
bandpass_filter(r, freq_min, freq_max) ==
    [r EXCEPT !.pre = Append(@, << "bandpass_filter", freq_min, freq_max >>)]
whiten(r) == [r EXCEPT !.pre = Append(@, << "whiten" >>)]

\* lines 134-136: every channel is given a location when the recording has none
EnsureLocation(r) ==
    IF "location" \notin getChannelPropertyNames(r)
    THEN [r EXCEPT !.properties = @ \cup { "location" }]
    ELSE r

\* ml_ms4alg.mountainsort4(recording=..., detect_sign=..., ...)
ml_ms4alg_mountainsort4(r, p) ==
    [sorter |-> "ml_ms4alg.mountainsort4", recording |-> r, detect_sign |-> p.detect_sign,
     adjacency_radius |-> p.adjacency_radius, clip_size |-> p.clip_size,
     detect_threshold |-> p.detect_threshold, detect_interval |-> p.detect_interval,
     curation |-> None]

\* ml_ms4alg.mountainsort4_curation(recording=..., sorting=..., noise_overlap_threshold=...)
ml_ms4alg_mountainsort4_curation(r, s, noise_overlap_threshold) ==
    [s EXCEPT !.curation = Some(noise_overlap_threshold)]

\* variant: the bandpass filter applied whatever freq_min is
Filtered_always(r, p) ==
    bandpass_filter(r, IF p.freq_min = None THEN 0 ELSE p.freq_min[1], p.freq_max)

\* lines 126-127
Filtered(r, p) ==
    IF p.freq_min # None THEN bandpass_filter(r, p.freq_min[1], p.freq_max) ELSE r

\* lines 130-131
Whitened(r, p) == IF p.whiten THEN whiten(r) ELSE r

\* lines 149-154
Curated(r, s, p) ==
    IF p.noise_overlap_threshold # None
    THEN ml_ms4alg_mountainsort4_curation(r, s, p.noise_overlap_threshold[1])
    ELSE s

\* the steps a recording went through, read off the recording sorted and the
\* sorting returned
StepsOf(sorted, out) ==
    [i \in 1..Len(sorted.pre) |-> sorted.pre[i][1]]
    \o << "ml_ms4alg.mountainsort4" >>
    \o IF out.curation # None THEN << "ml_ms4alg.mountainsort4_curation" >> ELSE <<>>

\* _mountainsort4(recording, *args), lines 118-156: how it ends, what it returns,
\* the recording that was sorted, the steps run
private_mountainsort4_of(have_ms4, r, args) ==
    LET p == BindPositional(args)
        sorted == EnsureLocation(Whitened(Filtered(r, p), p))
        out == Curated(sorted, ml_ms4alg_mountainsort4(sorted, p), p)
    IN  IF ~have_ms4
        THEN [status |-> "raised", value |-> "ModuleNotFoundError", sorted |-> r,
              steps |-> <<>>]
        ELSE [status |-> "ok", value |-> out, sorted |-> sorted, steps |-> StepsOf(sorted, out)]

\* the recording of the caller after _mountainsort4: the locations were set on
\* it when it is the recording that was sorted (no filter, no whitening)
CallerRecording(r, res) ==
    IF res.status = "ok" /\ res.sorted.pre = <<>> THEN res.sorted ELSE r

\* variant: the sorter parameters passed on without the curation threshold
SortByPropertyKwargs_uncurated(p) == [p EXCEPT !.noise_overlap_threshold = None]

\* lines 92-95: the keyword arguments given to _spikeSortByProperty
SortByPropertyKwargs(p) ==
    [detect_sign |-> p.detect_sign, adjacency_radius |-> p.adjacency_radius,
     freq_min |-> p.freq_min, freq_max |-> p.freq_max, whiten |-> p.whiten,
     clip_size |-> p.clip_size, detect_threshold |-> p.detect_threshold,
     detect_interval |-> p.detect_interval,
     noise_overlap_threshold |-> p.noise_overlap_threshold]

\* se.getSubExtractorsByProperty: the channels of one group, as a recording of its own
SubRecording(r, g) ==
    [r EXCEPT !.name = << r.name, g >>,
              !.channel_ids = SelectSeq(r.channel_ids, LAMBDA c : ChannelGroup(c) = g)]

\* _spikeSortByProperty(recording, 'mountainsort', property, parallel,
\* output_folder=..., **kwargs): the sorter named is run on the recording of
\* every group with these keyword arguments, and the sortings are put together
spikeSortByProperty(have_ms4, r, spikesorter, property, parallel, folder, kwargs) ==
    LET groups == << 0, 1 >>
        each == [i \in 1..Len(groups) |->
                    private_mountainsort4_of(have_ms4, SubRecording(r, groups[i]),
                                             PositionalArgs(kwargs))]
        handed == [call |-> "_spikeSortByProperty", spikesorter |-> spikesorter,
                   property |-> property, parallel |-> parallel, output_folder |-> folder,
                   kwargs |-> kwargs]
    IN  IF \E i \in 1..Len(each) : each[i].status = "raised"
        THEN [status |-> "raised", value |-> "ModuleNotFoundError", sorted |-> r,
              steps |-> <<>>, by_property |-> << handed >>]
        ELSE [status |-> "ok",
              value |-> [sorter |-> "MultiSortingExtractor",
                         sortings |-> [i \in 1..Len(each) |-> each[i].value]],
              sorted |-> r,
              steps |-> Concat([i \in 1..Len(each) |-> each[i].steps]),
              by_property |-> << handed >>]

\* mountainsort4(recording, output_folder, by_property, parallel, **p), lines 85-103
mountainsort4_of(have_ms4, r, by_property, parallel, p) ==
    IF by_property = None
    THEN private_mountainsort4_of(have_ms4, r, PositionalArgs(p))
    ELSE IF by_property[1] \in getChannelPropertyNames(r)
    THEN spikeSortByProperty(have_ms4, r, "mountainsort", by_property[1], parallel, None,
                             SortByPropertyKwargs(p))
    ELSE private_mountainsort4_of(have_ms4, r, PositionalArgs(p))

SorterCall(op, args, res) ==
    [op |-> op, args |-> args, status |-> res.status, value |-> res.value,
     steps |-> res.steps,
     by_property |-> IF "by_property" \in DOMAIN res THEN res.by_property ELSE <<>>]

mountainsort4 ==
    /\ UNCHANGED <<studyVars, curationVars, HAVE_MS4>>
    /\ \E by_property \in ByProperties, parallel \in BOOLEAN, p \in SorterParams :
          \E res \in { mountainsort4_of(HAVE_MS4, the_recording, by_property, parallel, p) } :
              /\ mcall' = SorterCall("mountainsort4",
                                     [by_property |-> by_property, parallel |-> parallel,
                                      params |-> p, recording |-> the_recording],
                                     res)
              /\ the_recording' = CallerRecording(the_recording, res)

\* _mountainsort4 called on the recording itself
private_mountainsort4 ==
    /\ UNCHANGED <<studyVars, curationVars, HAVE_MS4>>
    /\ \E p \in SorterParams :
          \E res \in { private_mountainsort4_of(HAVE_MS4, the_recording, PositionalArgs(p)) } :
              /\ mcall' = SorterCall("_mountainsort4",
                                     [by_property |-> None, parallel |-> FALSE,
                                      params |-> p, recording |-> the_recording],
                                     res)
              /\ the_recording' = CallerRecording(the_recording, res)

----------------------------------------------------------------------------
(* The three specifications *)

\* no study folder, and no call made on one
IdleStudy ==
    /\ dirs = {}
    /\ files = NoFiles
    /\ study = [status |-> "none", gt_dict |-> <<>>]
    /\ ret = Call("none", <<>>, Ok("None"))

\* no threshold_* call made
NoCurationCall == CurationCall("none", <<>>, Ok("None"), <<>>)

IdleCuration ==
    /\ the_sorting = SortingX
    /\ ncalls = 0
    /\ tcall = NoCurationCall

\* no mountainsort4 call made
NoSorterCall ==
    SorterCall("none", <<>>, [status |-> "ok", value |-> "None", steps |-> <<>>])

IdleSorter ==
    /\ the_recording = RecordingLG
    /\ HAVE_MS4 = TRUE
    /\ mcall = NoSorterCall

\* the folder before the first call: absent, or an existing folder that is not
\* a study
Init ==
    /\ \/ dirs = {} /\ files = NoFiles
       \/ dirs = {Root} /\ files = [p \in {ForeignFile} |-> <<"x">>]
    /\ study = [status |-> "none", gt_dict |-> <<>>]
    /\ ret = Call("none", <<>>, Ok("None"))
    /\ IdleCuration
    /\ IdleSorter

Next ==
    \/ setup_comparison_study
    \/ get_rec_names
    \/ get_recordings
    \/ get_ground_truths
    \/ run_study_sorters
    \/ collect_run_times
    \/ aggregate_sorting_comparison
    \/ aggregate_performances_table

Spec == Init /\ [][Next]_vars

\* a sorting extractor as its sorter left it, before the first threshold_* call
InitCuration ==
    /\ IdleStudy
    /\ IdleSorter
    /\ the_sorting \in Sortings
    /\ ncalls = 0
    /\ tcall = NoCurationCall

NextCuration ==
    \/ threshold_num_spikes
    \/ threshold_firing_rates
    \/ threshold_presence_ratios
    \/ threshold_isi_violations
    \/ threshold_amplitude_cutoffs
    \/ threshold_snrs
    \/ threshold_silhouette_scores
    \/ threshold_d_primes
    \/ threshold_l_ratios
    \/ threshold_isolation_distances

SpecCuration == InitCuration /\ [][NextCuration]_vars

\* a recording extractor before the first mountainsort4 call, in an
\* installation with or without ml_ms4alg
InitSorter ==
    /\ IdleStudy
    /\ IdleCuration
    /\ the_recording \in Recordings
    /\ HAVE_MS4 \in BOOLEAN
    /\ mcall = NoSorterCall

NextSorter ==
    \/ mountainsort4
    \/ private_mountainsort4

SpecSorter == InitSorter /\ [][NextSorter]_vars

----------------------------------------------------------------------------
(* Properties of the study folder *)

IsStudyFile(path) == path = NamesTxt \/ path[1] \in { "raw_files", "ground_truth" }

\* names.txt and the files under raw_files/ and ground_truth/, with their contents
StudyFiles(f) == [p \in { q \in DOMAIN f : IsStudyFile(q) } |-> f[p]]

UnderSorterOutputs(path) == path # Root /\ path[1] = "sorter_outputs"

\* the layout of a study with the given recording names
LayoutOf(rec_names) ==
    { NamesTxt } \cup UNION { { raw_filename(n), prb_filename(n), json_filename(n),
                                npz_filename(n) } : n \in rec_names }

StudyNames == Keys(study.gt_dict)

\* the (rec_name, sorter_name) output folders on disk
OutputFolders == { <<p[2], p[3]>> : p \in { q \in dirs : Len(q) = 3 /\ UnderSorterOutputs(q) } }

\* C1: once setup_comparison_study has succeeded, no step of any call changes
\* names.txt or a file under raw_files/ or ground_truth/ (none is added, removed
\* or rewritten), and a run_study_sorters step creates and changes only
\* directories and files under sorter_outputs/.
C1_StudyImmutable ==
    [][ /\ study.status = "created" => StudyFiles(files') = StudyFiles(files)
        /\ ret'.op = "run_study_sorters" =>
              /\ \A d \in dirs' \ dirs : UnderSorterOutputs(d)
              /\ dirs \subseteq dirs'
              /\ \A p \in DOMAIN files' :
                    (p \notin DOMAIN files \/ files'[p] # files[p]) => UnderSorterOutputs(p)
              /\ DOMAIN files \subseteq DOMAIN files' ]_vars

\* C1 witness: a created study that has sorter outputs and on which a further
\* setup_comparison_study call has just been made
C1_Witness ==
    /\ study.status = "created"
    /\ OutputFolders # {}
    /\ ret.op = "setup_comparison_study"

\* C2: a setup_comparison_study call on a folder that exists ends with the
\* assertion error 'study_folder already exists' and leaves every directory and
\* file as it was.
C2_ExistingFolderRefused ==
    [][ (StudyFolderExists /\ ret'.op = "setup_comparison_study") =>
            /\ ret'.status = "raised"
            /\ ret'.value = "AssertionError: study_folder already exists"
            /\ dirs' = dirs
            /\ files' = files ]_vars

\* C2 witness: the call was refused on a folder that is not a study
C2_Witness ==
    /\ ret.op = "setup_comparison_study"
    /\ ret.status = "raised"
    /\ ret.value = "AssertionError: study_folder already exists"
    /\ ForeignFile \in DOMAIN files

\* C3: right after a successful setup_comparison_study the folder holds the
\* directories raw_files and ground_truth and exactly the files of the layout
\* of the keys of gt_dict; for as long as the study exists the files outside
\* sorter_outputs/ are exactly that layout; and sorter_outputs appears only in
\* a run_study_sorters step.
C3_Layout ==
    /\ [](/\ (ret.op = "setup_comparison_study" /\ ret.status = "ok") =>
                /\ dirs = { Root, RawFilesDir, GroundTruthDir }
                /\ DOMAIN files = LayoutOf(Range(StudyNames))
          /\ study.status = "created" =>
                { p \in DOMAIN files : ~UnderSorterOutputs(p) } = LayoutOf(Range(StudyNames)))
    /\ [][ (SorterOutputsDir \notin dirs /\ SorterOutputsDir \in dirs') =>
                ret'.op = "run_study_sorters" ]_vars

\* C3 witness: setup has just succeeded on a gt_dict of two recordings
C3_Witness ==
    /\ ret.op = "setup_comparison_study"
    /\ ret.status = "ok"
    /\ Len(study.gt_dict) = 2
    /\ { raw_filename(<<"a">>), npz_filename(<<"b">>) } \subseteq DOMAIN files

\* C4: get_rec_names on a folder created by setup_comparison_study(folder,
\* gt_dict) returns the keys of gt_dict in insertion order, for every gt_dict,
\* the empty one included.
C4_NamesRoundTrip ==
    (ret.op = "get_rec_names" /\ study.status = "created") =>
        /\ ret.status = "ok"
        /\ ret.value = StudyNames

\* C5: on a created study get_recordings and get_ground_truths return a dict
\* whose keys are exactly the recording names of gt_dict, the value of name n
\* loaded from the files of n.
C5_LoadedByName ==
    /\ (ret.op = "get_recordings" /\ study.status = "created") =>
          /\ ret.status = "ok"
          /\ DOMAIN ret.value = Range(StudyNames)
          /\ \A n \in DOMAIN ret.value :
                /\ ret.value[n].raw_filename = raw_filename(n)
                /\ ret.value[n].prb_filename = prb_filename(n)
                /\ ret.value[n].data = files[raw_filename(n)].data
                /\ ret.value[n].probe = files[prb_filename(n)].probe
                /\ ret.value[n].sampling_frequency = files[json_filename(n)].sample_rate
                /\ ret.value[n].num_channels = files[json_filename(n)].num_chan
    /\ (ret.op = "get_ground_truths" /\ study.status = "created") =>
          /\ ret.status = "ok"
          /\ DOMAIN ret.value = Range(StudyNames)
          /\ \A n \in DOMAIN ret.value :
                /\ ret.value[n].npz_filename = npz_filename(n)
                /\ ret.value[n].sorting = files[npz_filename(n)]

\* C6: the dict aggregate_sorting_comparison returns has exactly the keys of
\* the collected sorter outputs, and the comparison of (rec_name, sorter_name)
\* is made of that sorter's output and of the ground truth stored under
\* rec_name (the content of ground_truth/rec_name.npz, which is the sorting_gt
\* that gt_dict holds for rec_name).
C6_ComparisonPerOutput ==
    (ret.op = "aggregate_sorting_comparison" /\ ret.status = "ok") =>
        LET comparisons == ret.value.comparisons
            collected == collect_sorting_outputs(dirs, files).value
        IN  /\ DOMAIN comparisons = DOMAIN collected
            /\ \A job \in DOMAIN comparisons :
                  /\ comparisons[job].tested_sorting = collected[job]
                  /\ comparisons[job].gt_sorting.npz_filename = npz_filename(job[1])
                  /\ comparisons[job].gt_sorting.sorting = files[npz_filename(job[1])]
                  /\ comparisons[job].gt_sorting.sorting = GtTupleOf(job[1]).sorting_gt

\* C6 witness: comparisons were returned for outputs of two recordings
C6_Witness ==
    /\ ret.op = "aggregate_sorting_comparison"
    /\ ret.status = "ok"
    /\ \E j1, j2 \in DOMAIN ret.value.comparisons : j1[1] # j2[1]

\* C7: aggregate_sorting_comparison returns two results, comparisons and
\* out_dataframes.
C7_ReturnsTwoResults ==
    (ret.op = "aggregate_sorting_comparison" /\ ret.status = "ok") =>
        DOMAIN ret.value = { "comparisons", "out_dataframes" }

\* C8: when the caller leaves exhaustive_gt out, aggregate_sorting_comparison
\* runs with exhaustive_gt true.
C8_ExhaustiveGtDefaultsTrue ==
    (ret.op = "aggregate_sorting_comparison" /\ ret.args.passed = <<>>) =>
        ret.args.exhaustive_gt = TRUE

\* C9: the karg_thresh given to aggregate_sorting_comparison reach the
\* well-detected-units computation of every comparison it returns.
C9_ThresholdsPassedOn ==
    (ret.op = "aggregate_sorting_comparison" /\ ret.status = "ok"
        /\ ret.args.karg_thresh # NoKwargs) =>
        \A job \in DOMAIN ret.value.comparisons :
            MethodCall("count_well_detected_units", job, ret.args.karg_thresh) \in ret.calls

\* C10: when sorter_outputs exists, collect_run_times returns without error a
\* list with exactly one triple (rec_name, sorter_name, run_time) for every
\* output folder that has a run_log.txt and none for a folder without it,
\* run_time being the time the log was written with.
C10_RunTimesCollected ==
    (ret.op = "collect_run_times" /\ SorterOutputsDir \in dirs) =>
        /\ ret.status = "ok"
        /\ Range(ret.value) =
              { <<job[1], job[2], MeasuredRunTime(job[2])>> :
                    job \in { j \in OutputFolders : run_log(j[1], j[2]) \in DOMAIN files } }
        /\ Distinct(ret.value)

\* C10 witness: run times were collected from a folder with a log while
\* another output folder has none
C10_Witness ==
    /\ ret.op = "collect_run_times"
    /\ ret.status = "ok"
    /\ Len(ret.value) >= 2
    /\ \E j \in OutputFolders : run_log(j[1], j[2]) \notin DOMAIN files

\* the pairs aggregate_performances_table has a comparison for
ComparedPairs == DOMAIN aggregate_sorting_comparison_of(dirs, files).value

\* C11: for every (recording, sorter) pair that has a comparison, the tables
\* aggregate_performances_table returns report the numbers of well-detected,
\* redundant, false-positive and missed units of that pair.
C11_CountsReported ==
    (ret.op = "aggregate_performances_table" /\ ret.status = "ok") =>
        \A job \in ComparedPairs :
            /\ job \in DOMAIN ret.value.count_units.rows
            /\ \A c \in { "num_well_detected", "num_redundant", "num_false_positive",
                          "num_missed" } :
                  /\ c \in Range(ret.value.count_units.columns)
                  /\ ret.value.count_units.rows[job][c] # None

\* the pairs whose output folder holds a run_log.txt
LoggedPairs == { j \in OutputFolders : run_log(j[1], j[2]) \in DOMAIN files }

\* C12: aggregate_performances_table returns exactly the tables run_times,
\* perf_pooled_with_sum, perf_pooled_with_average and count_units; the rows of
\* each of the last three are the rows of run_times, which are the pairs with a
\* run log and no other pair; and the row of a pair with a run log and no
\* collected sorter output is empty.
C12_TablesShareIndex ==
    (ret.op = "aggregate_performances_table" /\ ret.status = "ok") =>
        /\ DOMAIN ret.value = { "run_times", "perf_pooled_with_sum",
                                "perf_pooled_with_average", "count_units" }
        /\ DOMAIN ret.value.run_times.rows = LoggedPairs
        /\ \A t \in { "perf_pooled_with_sum", "perf_pooled_with_average", "count_units" } :
              DOMAIN ret.value[t].rows = DOMAIN ret.value.run_times.rows
        /\ \A job \in LoggedPairs \ ComparedPairs :
              /\ ret.value.perf_pooled_with_sum.rows[job] = None
              /\ ret.value.perf_pooled_with_average.rows[job] = None
              /\ \A c \in DOMAIN ret.value.count_units.rows[job] :
                    ret.value.count_units.rows[job][c] = None

\* the metric class each threshold_* function is named after
MetricOf(op) ==
    CASE op = "threshold_num_spikes"          -> "NumSpikes"
      [] op = "threshold_firing_rates"        -> "FiringRate"
      [] op = "threshold_presence_ratios"     -> "PresenceRatio"
      [] op = "threshold_isi_violations"      -> "ISIViolation"
      [] op = "threshold_amplitude_cutoffs"   -> "AmplitudeCutoff"
      [] op = "threshold_snrs"                -> "SNR"
      [] op = "threshold_silhouette_scores"   -> "SilhouetteScore"
      [] op = "threshold_d_primes"            -> "DPrime"
      [] op = "threshold_l_ratios"            -> "LRatio"
      [] op = "threshold_isolation_distances" -> "IsolationDistance"

\* a threshold_* call was made and returned
Returned == tcall.op # "none" /\ tcall.status = "ok"

\* C13: in each of the ten threshold_* functions the threshold, threshold_sign
\* and epoch of the caller are the first three arguments of threshold_metric of
\* the function's own metric, what threshold_metric returns is returned, and the
\* units thresholded are those whose metric value is < the threshold for
\* 'less', <= for 'less_or_equal', > for 'greater', >= for 'greater_or_equal'.
C13_SignSelectsComparison ==
    Returned =>
        LET handed == tcall.steps[Len(tcall.steps)]
            units == Range(tcall.steps[1].unit_ids)
            threshold == tcall.args.threshold
            threshold_sign == tcall.args.threshold_sign
            value(u) == MetricValue(MetricOf(tcall.op), u, tcall.args.epoch)
        IN  /\ handed.call = "threshold_metric"
            /\ handed.metric = MetricOf(tcall.op)
            /\ handed.args[1] = threshold
            /\ handed.args[2] = threshold_sign
            /\ handed.args[3] = tcall.args.epoch
            /\ tcall.value = handed.returned
            /\ threshold_sign = "less" =>
                  tcall.value.thresholded = { u \in units : value(u) < threshold }
            /\ threshold_sign = "less_or_equal" =>
                  tcall.value.thresholded = { u \in units : value(u) <= threshold }
            /\ threshold_sign = "greater" =>
                  tcall.value.thresholded = { u \in units : value(u) > threshold }
            /\ threshold_sign = "greater_or_equal" =>
                  tcall.value.thresholded = { u \in units : value(u) >= threshold }

\* C13 witness: threshold_snrs returned the units of the second epoch whose
\* value is at least the threshold, the unit at the threshold among them
C13_Witness ==
    /\ tcall.op = "threshold_snrs"
    /\ tcall.status = "ok"
    /\ tcall.args.threshold_sign = "greater_or_equal"
    /\ tcall.args.threshold = 3
    /\ tcall.args.epoch = 1
    /\ the_sorting.name = "sortingX"
    /\ tcall.value.thresholded = { 2, 3 }

\* the four functions that take sampling_frequency
WithSamplingFrequency ==
    { "threshold_num_spikes", "threshold_firing_rates", "threshold_presence_ratios",
      "threshold_isi_violations" }

\* C14: a call of threshold_num_spikes, threshold_firing_rates,
\* threshold_presence_ratios or threshold_isi_violations with sampling_frequency
\* None raises the ValueError when the sorting has no sampling frequency, with
\* no metric data built, no metric computed and no property saved on the
\* sorting; when the sorting has one the call raises nothing.
C14_NoSamplingFrequency ==
    [][ (tcall'.op \in WithSamplingFrequency /\ tcall'.args.sampling_frequency = None) =>
            IF get_sampling_frequency(the_sorting) = None
            THEN /\ tcall'.status = "raised"
                 /\ tcall'.value = NoSamplingFrequency
                 /\ tcall'.steps = <<>>
                 /\ the_sorting' = the_sorting
            ELSE /\ tcall'.status = "ok"
                 /\ ResolveSamplingFrequency(tcall'.args.sampling_frequency, the_sorting)
                        = Ok(get_sampling_frequency(the_sorting)) ]_vars

\* C14 witness: threshold_isi_violations raised on the sorting that has no
\* sampling frequency
C14_Witness ==
    /\ tcall.op = "threshold_isi_violations"
    /\ tcall.status = "raised"
    /\ tcall.args.sampling_frequency = None
    /\ the_sorting.name = "sortingY"

\* the unit_ids a caller's metric_scope_params specifies, None when it has none
GivenUnitIds(metric_scope_params) ==
    IF "unit_ids" \in DOMAIN metric_scope_params THEN metric_scope_params.unit_ids ELSE None

\* C15: in every threshold_* function the metric data is built on, and the
\* metric is computed for, all unit ids of the sorting of the call when
\* metric_scope_params specifies no unit_ids, and exactly the unit ids specified
\* when it does.
C15_UnitIdsOfScope ==
    Returned =>
        LET md == tcall.steps[1]
            given == GivenUnitIds(tcall.args.metric_scope_params)
        IN  /\ md.call = "MetricData"
            /\ md.sorting = the_sorting.name
            /\ given = None => md.unit_ids = get_unit_ids(the_sorting)
            /\ given # None => md.unit_ids = given[1]
            /\ tcall.value.unit_ids = md.unit_ids
            /\ tcall.value.thresholded \subseteq Range(md.unit_ids)

\* C15 witness: threshold_isolation_distances returned for the two unit ids
\* specified, of the three of the sorting
C15_Witness ==
    /\ tcall.op = "threshold_isolation_distances"
    /\ tcall.status = "ok"
    /\ tcall.steps[1].unit_ids = <<2, 1>>
    /\ get_unit_ids(the_sorting) = <<1, 2, 3>>

\* how many times a step was run by the last mountainsort4 call
StepCount(name) == Cardinality({ i \in DOMAIN mcall.steps : mcall.steps[i] = name })

\* C16: where ml_ms4alg can be imported, _mountainsort4 returns a sorting; the
\* bandpass filter is applied (once) unless freq_min is None, the whitening
\* (once) unless whiten is false, the curation (once) unless
\* noise_overlap_threshold is None, in which case what ml_ms4alg.mountainsort4
\* returned is returned; and ml_ms4alg.mountainsort4 runs exactly once.
C16_OptionalStepsSkipped ==
    (mcall.op = "_mountainsort4" /\ HAVE_MS4) =>
        LET p == mcall.args.params
        IN  /\ mcall.status = "ok"
            /\ StepCount("bandpass_filter") = IF p.freq_min = None THEN 0 ELSE 1
            /\ StepCount("whiten") = IF p.whiten THEN 1 ELSE 0
            /\ StepCount("ml_ms4alg.mountainsort4_curation") =
                  IF p.noise_overlap_threshold = None THEN 0 ELSE 1
            /\ StepCount("ml_ms4alg.mountainsort4") = 1
            /\ p.noise_overlap_threshold = None =>
                  mcall.value = ml_ms4alg_mountainsort4(mcall.value.recording, p)
            /\ p.noise_overlap_threshold # None =>
                  mcall.value.curation = p.noise_overlap_threshold

\* C16 witness: _mountainsort4 ran with the three optional steps switched off
C16_Witness ==
    /\ mcall.op = "_mountainsort4"
    /\ mcall.status = "ok"
    /\ mcall.args.params.freq_min = None
    /\ ~mcall.args.params.whiten
    /\ mcall.args.params.noise_overlap_threshold = None
    /\ mcall.steps = << "ml_ms4alg.mountainsort4" >>

\* C17: where ml_ms4alg can be imported, mountainsort4 returns a sorting.  With
\* by_property None, or naming no channel property of the recording, it is what
\* one _mountainsort4 call on the whole recording returns, with the steps of
\* that call.  With by_property a channel property, _spikeSortByProperty is
\* handed that property and the sorter parameters of the caller, and every
\* group is sorted with them.
C17_DispatchOnByProperty ==
    (mcall.op = "mountainsort4" /\ HAVE_MS4) =>
        LET a == mcall.args
            whole == private_mountainsort4_of(TRUE, a.recording, PositionalArgs(a.params))
            grouped == /\ a.by_property # None
                       /\ a.by_property[1] \in getChannelPropertyNames(a.recording)
        IN  /\ mcall.status = "ok"
            /\ ~grouped =>
                  /\ mcall.by_property = <<>>
                  /\ mcall.value = whole.value
                  /\ mcall.steps = whole.steps
                  /\ StepCount("ml_ms4alg.mountainsort4") = 1
            /\ grouped =>
                  /\ Len(mcall.by_property) = 1
                  /\ mcall.by_property[1].property = a.by_property[1]
                  /\ mcall.by_property[1].parallel = a.parallel
                  /\ mcall.by_property[1].kwargs = a.params
                  /\ mcall.value.sorter = "MultiSortingExtractor"
                  /\ StepCount("ml_ms4alg.mountainsort4") = Len(mcall.value.sortings)
                  /\ \A i \in DOMAIN mcall.value.sortings :
                        LET s == mcall.value.sortings[i]
                        IN  /\ s.curation = a.params.noise_overlap_threshold
                            /\ s.detect_sign = a.params.detect_sign
                            /\ s.adjacency_radius = a.params.adjacency_radius
                            /\ s.clip_size = a.params.clip_size
                            /\ s.detect_threshold = a.params.detect_threshold
                            /\ s.detect_interval = a.params.detect_interval
                            /\ (\E j \in DOMAIN s.recording.pre :
                                    s.recording.pre[j][1] = "whiten") <=> a.params.whiten
                            /\ (\E j \in DOMAIN s.recording.pre :
                                    s.recording.pre[j][1] = "bandpass_filter")
                                  <=> a.params.freq_min # None

\* C17 witness: a recording was sorted by its channel property 'group', one
\* sorting per group
C17_Witness ==
    /\ mcall.op = "mountainsort4"
    /\ mcall.status = "ok"
    /\ mcall.args.by_property = Some("group")
    /\ mcall.args.recording.name = "recG"
    /\ Len(mcall.by_property) = 1
    /\ Len(mcall.value.sortings) = 2

\* C18: the table count_units that aggregate_performances_table returns has the
\* columns num_gt, num_sorter, num_well_detected and num_redundant whatever
\* exhaustive_gt is, and the columns num_false_positive and num_bad exactly when
\* exhaustive_gt is true; every row has the columns of the table; and with
\* exhaustive_gt false neither count_false_positive_units nor count_bad_units is
\* called on any comparison.
C18_ExhaustiveColumns ==
    (ret.op = "aggregate_performances_table" /\ ret.status = "ok") =>
        LET count_units == ret.value.count_units
            columns == Range(count_units.columns)
            exhaustive == { "num_false_positive", "num_bad" }
        IN  /\ { "num_gt", "num_sorter", "num_well_detected", "num_redundant" }
                  \subseteq columns
            /\ ret.args.exhaustive_gt => exhaustive \subseteq columns
            /\ ~ret.args.exhaustive_gt => exhaustive \cap columns = {}
            /\ \A job \in DOMAIN count_units.rows : DOMAIN count_units.rows[job] = columns
            /\ ~ret.args.exhaustive_gt =>
                  \A call \in ret.calls :
                      call[1] \notin { "count_false_positive_units", "count_bad_units" }
            /\ ret.args.exhaustive_gt =>
                  \A job \in ComparedPairs :
                      { MethodCall("count_false_positive_units", job, NoKwargs),
                        MethodCall("count_bad_units", job, NoKwargs) } \subseteq ret.calls

\* C18 witness: tables with a filled row were returned for a call that left
\* exhaustive_gt out
C18_Witness ==
    /\ ret.op = "aggregate_performances_table"
    /\ ret.status = "ok"
    /\ ret.args.passed = <<>>
    /\ ret.calls # {}
    /\ \E job \in DOMAIN ret.value.count_units.rows :
          ret.value.count_units.rows[job].num_redundant # None

\* the names a names.txt lists: its lines, each ended by a line break
ListedNames(text) == DropLast(Split(text, NL))

\* C19: in every state, the states left by an interrupted setup_comparison_study
\* included, if names.txt exists then the four files of every recording of
\* gt_dict exist, and so do the four files of every name that names.txt lists.
C19_NamesAfterFiles ==
    NamesTxt \in DOMAIN files =>
        /\ \A n \in Range(StudyNames) :
              { raw_filename(n), prb_filename(n), json_filename(n), npz_filename(n) }
                  \subseteq DOMAIN files
        /\ \A n \in Range(ListedNames(files[NamesTxt])) :
              { raw_filename(n), prb_filename(n), json_filename(n), npz_filename(n) }
                  \subseteq DOMAIN files

\* C19 witness: setup_comparison_study was interrupted while it was writing
\* names.txt: one name of two is listed
C19_Witness ==
    /\ study.status = "interrupted"
    /\ NamesTxt \in DOMAIN files
    /\ Len(ListedNames(files[NamesTxt])) = 1
    /\ Len(study.gt_dict) = 2

\* C20: for every recording stored by setup_comparison_study, get_recordings
\* opens the binary file with the sampling rate and the number of channels of
\* the original recording, with dtype float32 and frames_first true, and this
\* is how the file was written: dtype float32, time on axis 0.
C20_MetadataRoundTrip ==
    (ret.op = "get_recordings" /\ study.status = "created") =>
        \A i \in 1..Len(study.gt_dict) :
            LET n == study.gt_dict[i].rec_name
                original == study.gt_dict[i].tuple.recording
                written == files[raw_filename(n)]
            IN  /\ ret.status = "ok"
                /\ n \in DOMAIN ret.value
                /\ ret.value[n].sampling_frequency = original.sampling_frequency
                /\ ret.value[n].num_channels = original.num_channels
                /\ ret.value[n].dtype = "float32"
                /\ ret.value[n].frames_first = TRUE
                /\ written.dtype = ret.value[n].dtype
                /\ (written.time_axis = 0) <=> ret.value[n].frames_first

\* C20 witness: two recordings of different sampling rates were stored and opened
C20_Witness ==
    /\ ret.op = "get_recordings"
    /\ ret.status = "ok"
    /\ study.status = "created"
    /\ { <<"a">>, <<"b">> } \subseteq DOMAIN ret.value
    /\ ret.value[<<"a">>].sampling_frequency = 30000
    /\ ret.value[<<"b">>].sampling_frequency = 20000

====
